---- MODULE Spec2Model ----
(***************************************************************************)
(* A model of the persistent data network's programs:                      *)
(*   - Server (src/unnamed/part_000, lines 24-76): the accept/recv loop    *)
(*     that records each request's data and answers it;                    *)
(*   - Client (src/unnamed/part_000, lines 86-128): connect, a first recv, *)
(*     then the loop that asks for the latest transactions;                *)
(*   - ConsensusAlgorithm (src/unnamed/part_000, lines 158-236): the       *)
(*     proposal loop of a coordinator;                                     *)
(*   - the message store (src/pdn_user_to_user.cpp): storeMessage and      *)
(*     getMessage over a Kademlia DHT.                                     *)
(* The transport (accept, recv, send) is the environment: the value each   *)
(* call returns is an input of the step that makes the call.               *)
(* Where blocking matters (NetSpec) the calls are tied to connections: a   *)
(* recv returns when its peer has sent, closed or the connection was       *)
(* reset, an accept when a peer has connected.  Client's connect is taken  *)
(* to establish a connection, as its comment says.                         *)
(*                                                                         *)
(* Server::transactions is declared a map of vectors and used as a vector  *)
(* (transactions.push_back(data)); it is modelled as the sequence that     *)
(* push_back builds.                                                       *)
(*                                                                         *)
(* ConsensusAlgorithm::recvClientData is a placeholder ("return 0; //      *)
(* Replace with actual implementation").  waitForVotes is modelled twice:  *)
(* waitForVotes takes what the receive delivers (its byte count and the    *)
(* reply's "majority" field) as inputs, as for the server's recv, so that  *)
(* every branch of the loop is exercised; waitForVotesStub takes the       *)
(* placeholder as written, under which every round ends rejected.          *)
(*                                                                         *)
(* kademlia::add and kademlia::get belong to a library that is not part of *)
(* the sources; they are modelled from the DHTRouter contract (store       *)
(* reaches at least one replica of route(K), lookup returns a value held   *)
(* by a replica that answers).                                             *)
(***************************************************************************)
EXTENDS Integers, Sequences, FiniteSets, TLC

(***************************************************************************)
(* Bounds of the model.                                                    *)
(***************************************************************************)
\* Proposal numbers a coordinator may issue are 0 .. MaxProposal-1.
MaxProposal == 3
\* Longest history of accepted proposals kept per coordinator.
MaxAccepted == 2
\* Most replies without a majority read in one waitForVotes call.
MaxVotes == 2
\* Most connections the server accepts.
MaxConnections == 3
\* Size N of the membership snapshot of the quorum properties.
MembershipSize == 5
\* Rounds within which the progress property expects an accepted proposal.
RetryBound == 2
\* Most storeMessage calls.
MaxStores == 3

(***************************************************************************)
(* Values.                                                                 *)
(***************************************************************************)
\* The coordinators (instances of ConsensusAlgorithm) that run concurrently.
Coordinators == {"A", "B"}

\* What recv returns: an error, an orderly shutdown, or a positive byte count.
RecvResults == {-1, 0, 1}

\* What send returns.
SendResults == {-1, 0, 1}

\* Garbage an uninitialised int member may hold before start() assigns it.
Uninit == {0, 1}

\* The requests a client may send: JSON objects with or without a "data" field.
Requests == {[data |-> "tx1"], [data |-> "tx2"], [other |-> "x"]}

\* The peers that connect to the server: two clients of its request protocol
\* and the program's own Client.
EnvPeers == {"p1", "p2"}

Peers == EnvPeers \cup {"client"}

\* What Client sends in its loop: the text "Get latest transactions", which is
\* not a JSON object and so has no "data" field.
GetLatest == [text |-> "Get latest transactions"]

\* The nodes of the replica set route(K) of every key (replication factor 3).
Nodes == {"N1", "N2", "N3"}

\* The messages storeMessage is called with: message1 and message2 of main(),
\* and a second message from Alice to Bob.
Messages == {[sender |-> "Alice", recipient |-> "Bob", data |-> "Hello, Bob!"],
             [sender |-> "Bob", recipient |-> "Charlie", data |-> "Hi, Charlie!"],
             [sender |-> "Alice", recipient |-> "Bob", data |-> "Bye, Bob!"]}

\* The (sender, recipient) pairs of the messages, which getMessage is called with.
Keys == {<<m.sender, m.recipient>> : m \in Messages}

\* What a lookup returns for a key no queried node holds.
NotFound == "NotFound"

\* floor(N/2)+1, the strict majority of a membership snapshot of size n.
Majority(n) == (n \div 2) + 1

VARIABLES
    \* ---- Server ----
    serverPc,        \* where Server::start stands: "accept", "recv", "send"
    clientSocket,    \* the socket of the connection being served, -1 after a failed accept
    connections,     \* the number of sockets accept has returned
    bytesRead,       \* what the last recv returned
    data,            \* request["data"].asString() of the last request
    transactions,    \* the server's transaction log
    openSockets,     \* accepted sockets the server has not closed
    responded,       \* sockets on which the response was sent (send returned > 0)
    received,        \* sockets on which recv returned more than 0 bytes
    recvFailedOn,    \* sockets on which recv returned <= 0
    sendFailedOn,    \* sockets on which the response's send returned <= 0
    \* ---- ConsensusAlgorithm, one per coordinator ----
    caPc,            \* where start() stands: "start", "propose", "wait"
    currentProposal,
    voteCount,
    caTransactions,  \* the coordinator's own transactions map (key -> vector)
    proposalNumber,  \* start()'s local: the number of the round under way
    votesReceived,   \* replies read by the waitForVotes call under way
    outcome,         \* how the last waitForVotes ended: "none", "accepted", "rejected"
    accepted,        \* the values printed as "Proposal accepted with value: ", in order
    maxIssued,       \* the highest number incrementProposal has returned, -1 if none
    \* ---- message store ----
    held,            \* held[n]: the <<sender, recipient, value>> entries node n holds
    reachable,       \* the nodes that answer
    stores,          \* the number of storeMessage calls made
    lastCall,        \* the last call: its operation, arguments, result and the nodes that answered
    lastStored,      \* lastStored[k]: the data of the last message stored for the pair k
    holders,         \* holders[k]: the nodes that acknowledged a store of that data since it became the last
    stale,           \* stale[k]: the nodes left holding an older value for the pair k
    everStored,      \* everStored[k]: the data of every message stored under the pair k
    \* ---- Connections between the server and its peers, and Client ----
    backlog,         \* the peers that connected and wait to be accepted, in order
    peerOf,          \* peerOf[s]: the peer at the other end of the server's socket s
    link,            \* link[p]: "none", "open", "sent" (open, request sent), "closed", "reset"
    toServer,        \* toServer[p]: what p sent and the server has not read yet
    toClient,        \* toClient[p]: the responses sent to p that p has not read yet
    clientPc,        \* where Client::start stands: "connect", "recv", "send", "recv2", "done"
    clientPeer       \* what Client connected to: "none", "Server", "other"

serverVars == <<serverPc, clientSocket, connections, bytesRead, data, transactions,
                openSockets, responded, received, recvFailedOn, sendFailedOn>>

caVars == <<caPc, currentProposal, voteCount, caTransactions, proposalNumber,
            votesReceived, outcome, accepted, maxIssued>>

dhtVars == <<held, reachable, stores, lastCall, lastStored, holders, stale, everStored>>

netVars == <<backlog, peerOf, link, toServer, toClient, clientPc, clientPeer>>

vars == <<serverVars, caVars, dhtVars, netVars>>

(***************************************************************************)
(* Server                                                                  *)
(***************************************************************************)
\* request["data"].asString(): the field's string, "" when the field is absent.
RequestData(request) ==
    IF "data" \in DOMAIN request THEN request.data ELSE ""

\* A mutant of push_back: the new entry replaces the last one.
push_back_overwrite(log, entry) ==
    IF log = <<>> THEN <<entry>> ELSE [log EXCEPT ![Len(log)] = entry]

\* transactions.push_back(data): the new entry goes to the end.
push_back(log, entry) == Append(log, entry)

\* close(clientSocket)
close(sockets, socket) == sockets \ {socket}

\* A mutant of recvFailed: only an error, not a shutdown, counts as a failure.
recvFailedErrorOnly(n) == n < 0

\* A mutant of recvFailed: whatever recv returns is taken for a request.
recvFailedNever(n) == FALSE

\* if (bytesRead <= 0): the connection gave no request.
recvFailed(n) == n <= 0

\* A mutant of sendFailed: only an error counts as a failure.
sendFailedErrorOnly(n) == n < 0

\* if (bytesWritten <= 0): the response was not sent.
sendFailed(n) == n <= 0

ServerInit ==
    /\ serverPc = "accept"
    /\ clientSocket = -1
    /\ connections = 0
    /\ bytesRead = 0
    /\ data = ""
    /\ transactions = <<>>
    /\ openSockets = {}
    /\ responded = {}
    /\ received = {}
    /\ recvFailedOn = {}
    /\ sendFailedOn = {}

\* The loop's step at accept when accept returns a socket (ok) or -1: -1
\* sends the loop back to accept; a socket leads to recv.
AcceptStep(ok) ==
    /\ serverPc = "accept"
    /\ IF ok
       THEN /\ connections < MaxConnections
            /\ clientSocket' = connections + 1
            /\ connections' = connections + 1
            /\ openSockets' = openSockets \cup {connections + 1}
            /\ serverPc' = "recv"
       ELSE /\ clientSocket' = -1
            /\ serverPc' = "accept"
            /\ UNCHANGED <<connections, openSockets>>
    /\ UNCHANGED <<bytesRead, data, transactions, responded, received,
                   recvFailedOn, sendFailedOn>>

\* The loop's step at recv when recv returns n and the buffer holds
\* `request`: <= 0 closes the socket and sends the loop back to accept;
\* otherwise the request is parsed and its data appended to the log.
RecvStep(n, request) ==
    /\ serverPc = "recv"
    /\ bytesRead' = n
    /\ IF recvFailed(n)
       THEN /\ openSockets' = close(openSockets, clientSocket)
            /\ serverPc' = "accept"
            /\ UNCHANGED <<data, transactions>>
       ELSE /\ data' = RequestData(request)
            /\ transactions' = push_back(transactions, RequestData(request))
            /\ serverPc' = "send"
            /\ UNCHANGED openSockets
    /\ received' = IF n > 0 THEN received \cup {clientSocket} ELSE received
    /\ recvFailedOn' = IF n <= 0 THEN recvFailedOn \cup {clientSocket} ELSE recvFailedOn
    /\ UNCHANGED <<clientSocket, connections, responded, sendFailedOn>>

\* sendResponse's step when send returns bytesWritten: a failed send closes
\* the socket; either way the loop goes back to accept.
SendStep(bytesWritten) ==
    /\ serverPc = "send"
    /\ IF sendFailed(bytesWritten)
       THEN /\ openSockets' = close(openSockets, clientSocket)
            /\ UNCHANGED responded
       ELSE /\ responded' = responded \cup {clientSocket}
            /\ UNCHANGED openSockets
    /\ sendFailedOn' = IF bytesWritten <= 0
                       THEN sendFailedOn \cup {clientSocket} ELSE sendFailedOn
    /\ serverPc' = "accept"
    /\ UNCHANGED <<clientSocket, connections, bytesRead, data, transactions,
                   received, recvFailedOn>>

\* accept() with its result taken from the transport.
ServerAccept ==
    /\ \E ok \in BOOLEAN : AcceptStep(ok)
    /\ UNCHANGED <<caVars, dhtVars, netVars>>

\* recv() with its result and the request taken from the transport.
ServerRecv ==
    /\ \E n \in RecvResults, request \in Requests : RecvStep(n, request)
    /\ UNCHANGED <<caVars, dhtVars, netVars>>

\* sendResponse(clientSocket, "Data received successfully.") with send's
\* result taken from the transport.
sendResponse ==
    /\ \E bytesWritten \in SendResults : SendStep(bytesWritten)
    /\ UNCHANGED <<caVars, dhtVars, netVars>>

ServerNext == ServerAccept \/ ServerRecv \/ sendResponse

(***************************************************************************)
(* ConsensusAlgorithm                                                      *)
(***************************************************************************)
\* A mutant of incrementProposal: the number is incremented before it is
\* returned (++currentProposal).
incrementProposalPre(current) ==
    [result |-> current + 1, currentProposal |-> current + 1]

\* A mutant of updateCurrentProposal: the accepting reply is counted as a vote.
updateCurrentProposalCountsReply(number, txs) ==
    [currentProposal |-> number, voteCount |-> Cardinality(DOMAIN txs) + 1]

\* return currentProposal++ : the old value is returned, the member is bumped.
incrementProposal(current) == [result |-> current, currentProposal |-> current + 1]

\* currentProposal = proposalNumber; voteCount = number of keys of transactions.
updateCurrentProposal(number, txs) ==
    [currentProposal |-> number, voteCount |-> Cardinality(DOMAIN txs)]

\* recvClientData() as written: the placeholder returns 0.
recvClientData == 0

\* No constructor initialises currentProposal and voteCount: until start()
\* assigns them they hold garbage (the same garbage in every coordinator).
CaInit ==
    /\ caPc = [c \in Coordinators |-> "start"]
    /\ \E g \in Uninit : currentProposal = [c \in Coordinators |-> g]
    /\ \E g \in Uninit : voteCount = [c \in Coordinators |-> g]
    /\ caTransactions = [c \in Coordinators |-> <<>>]
    /\ proposalNumber = [c \in Coordinators |-> 0]
    /\ votesReceived = [c \in Coordinators |-> 0]
    /\ outcome = [c \in Coordinators |-> "none"]
    /\ accepted = [c \in Coordinators |-> <<>>]
    /\ maxIssued = [c \in Coordinators |-> -1]

\* start(): currentProposal = 0; voteCount = 0; then the loop.
CaStart(c) ==
    /\ caPc[c] = "start"
    /\ currentProposal' = [currentProposal EXCEPT ![c] = 0]
    /\ voteCount' = [voteCount EXCEPT ![c] = 0]
    /\ caPc' = [caPc EXCEPT ![c] = "propose"]
    /\ UNCHANGED <<caTransactions, proposalNumber, votesReceived, outcome, accepted,
                   maxIssued, serverVars, dhtVars, netVars>>

\* One pass of the loop up to the wait: incrementProposal, sendProposal.
Propose(c) ==
    /\ caPc[c] = "propose"
    /\ currentProposal[c] < MaxProposal
    /\ LET inc == incrementProposal(currentProposal[c])
       IN  /\ proposalNumber' = [proposalNumber EXCEPT ![c] = inc.result]
           /\ currentProposal' = [currentProposal EXCEPT ![c] = inc.currentProposal]
           /\ maxIssued' = [maxIssued EXCEPT
                              ![c] = IF inc.result > @ THEN inc.result ELSE @]
    /\ votesReceived' = [votesReceived EXCEPT ![c] = 0]
    /\ caPc' = [caPc EXCEPT ![c] = "wait"]
    /\ UNCHANGED <<voteCount, caTransactions, outcome, accepted, serverVars, dhtVars, netVars>>

\* One pass of waitForVotes' loop on a reply of `bytes` bytes whose "majority"
\* field is `majority`.
VoteStep(c, bytes, majority) ==
    /\ caPc[c] = "wait"
    /\ IF bytes = -1 \/ bytes = 0
       THEN \* break: "Proposal rejected."
            /\ outcome' = [outcome EXCEPT ![c] = "rejected"]
            /\ caPc' = [caPc EXCEPT ![c] = "propose"]
            /\ UNCHANGED <<currentProposal, voteCount, votesReceived, accepted>>
       ELSE IF majority
       THEN \* "Proposal accepted with value: ", updateCurrentProposal, return
            /\ Len(accepted[c]) < MaxAccepted
            /\ LET upd == updateCurrentProposal(proposalNumber[c], caTransactions[c])
               IN  /\ currentProposal' = [currentProposal EXCEPT ![c] = upd.currentProposal]
                   /\ voteCount' = [voteCount EXCEPT ![c] = upd.voteCount]
            /\ accepted' = [accepted EXCEPT ![c] = Append(@, proposalNumber[c])]
            /\ votesReceived' = [votesReceived EXCEPT ![c] = @ + 1]
            /\ outcome' = [outcome EXCEPT ![c] = "accepted"]
            /\ caPc' = [caPc EXCEPT ![c] = "propose"]
       ELSE \* a reply without a majority: read the next one
            /\ votesReceived[c] < MaxVotes
            /\ votesReceived' = [votesReceived EXCEPT ![c] = @ + 1]
            /\ UNCHANGED <<caPc, currentProposal, voteCount, outcome, accepted>>
    /\ UNCHANGED <<caTransactions, proposalNumber, maxIssued, serverVars, dhtVars, netVars>>

\* waitForVotes with the replies of the members arriving on the transport.
waitForVotes(c) ==
    \E bytes \in RecvResults, majority \in BOOLEAN : VoteStep(c, bytes, majority)

\* waitForVotes with recvClientData as written.
waitForVotesStub(c) ==
    \E majority \in BOOLEAN : VoteStep(c, recvClientData, majority)

CaNext == \E c \in Coordinators : CaStart(c) \/ Propose(c) \/ waitForVotes(c)

CaStubNext == \E c \in Coordinators : CaStart(c) \/ Propose(c) \/ waitForVotesStub(c)

(***************************************************************************)
(* The message store                                                       *)
(***************************************************************************)
\* A mutant of storeMessageArgs: sender and recipient change places.
storeMessageArgsSwapped(message) == <<message.recipient, message.sender, message.data>>

\* storeMessage's call: kademlia::add(node, sender, recipient, data).
storeMessageArgs(message) == <<message.sender, message.recipient, message.data>>

\* getMessage's call: kademlia::get(node, sender, recipient).
getMessageArgs(sender, recipient) == <<sender, recipient>>

\* kademlia::add: STORE(key, value) reaches the replicas in `acks`, each of
\* which keeps the value under the key (sender, recipient), in place of the
\* value it held under that key.
add(h, acks, sender, recipient, value) ==
    [n \in Nodes |->
       IF n \in acks
       THEN {e \in h[n] : ~(e[1] = sender /\ e[2] = recipient)}
              \cup {<<sender, recipient, value>>}
       ELSE h[n]]

\* kademlia::get: the values the queried nodes hold under the key; NotFound
\* when none of them holds one.
get(h, queried, sender, recipient) ==
    LET found == {e[3] : e \in {x \in UNION {h[n] : n \in queried} :
                                    x[1] = sender /\ x[2] = recipient}}
    IN  IF found = {} THEN {NotFound} ELSE found

DhtInit ==
    /\ held = [n \in Nodes |-> {}]
    /\ reachable = Nodes
    /\ stores = 0
    /\ lastCall = [op |-> "none"]
    /\ lastStored = [k \in Keys |-> NotFound]
    /\ holders = [k \in Keys |-> {}]
    /\ stale = [k \in Keys |-> {}]
    /\ everStored = [k \in Keys |-> {}]

\* storeMessage(message): the store succeeds when at least one replica
\* acknowledges it; with no replica reachable nothing is stored.
storeMessage(message) ==
    /\ stores < MaxStores
    /\ stores' = stores + 1
    /\ LET args == storeMessageArgs(message)
           k == <<message.sender, message.recipient>>
       IN  IF reachable = {}
           THEN /\ lastCall' = [op |-> "store", key |-> k, value |-> NotFound,
                                answered |-> {}]
                /\ UNCHANGED <<held, lastStored, holders, stale, everStored>>
           ELSE \E acks \in (SUBSET reachable) \ {{}} :
                  /\ held' = add(held, acks, args[1], args[2], args[3])
                  /\ lastCall' = [op |-> "store", key |-> k, value |-> message.data,
                                  answered |-> acks]
                  /\ lastStored' = [lastStored EXCEPT ![k] = message.data]
                  /\ holders' = [holders EXCEPT
                                   ![k] = IF lastStored[k] = message.data
                                          THEN @ \cup acks
                                          ELSE acks]
                  /\ stale' = [stale EXCEPT
                                 ![k] = IF lastStored[k] = message.data
                                        THEN (@ \ acks)
                                        ELSE (@ \cup holders[k]) \ acks]
                  /\ everStored' = [everStored EXCEPT ![k] = @ \cup {message.data}]
    /\ UNCHANGED <<reachable, serverVars, caVars, netVars>>

\* getMessage(sender, recipient): the reachable replicas are queried.
getMessage(sender, recipient) ==
    /\ LET args == getMessageArgs(sender, recipient)
       IN  \E v \in get(held, reachable, args[1], args[2]) :
             lastCall' = [op |-> "get", key |-> <<sender, recipient>>, value |-> v,
                          answered |-> reachable]
    /\ UNCHANGED <<held, reachable, stores, lastStored, holders, stale, everStored,
                   serverVars, caVars, netVars>>

\* A node stops answering (it crashed, or a partition cut it off).
NodeFails(n) ==
    /\ n \in reachable
    /\ reachable' = reachable \ {n}
    /\ UNCHANGED <<held, stores, lastCall, lastStored, holders, stale, everStored,
                   serverVars, caVars, netVars>>

\* A node answers again.
NodeRecovers(n) ==
    /\ n \notin reachable
    /\ reachable' = reachable \cup {n}
    /\ UNCHANGED <<held, stores, lastCall, lastStored, holders, stale, everStored,
                   serverVars, caVars, netVars>>

DhtNext ==
    \/ \E message \in Messages : storeMessage(message)
    \/ \E k \in Keys : getMessage(k[1], k[2])
    \/ \E n \in Nodes : NodeFails(n) \/ NodeRecovers(n)

(***************************************************************************)
(* The server, its peers and Client over connections                       *)
(*                                                                         *)
(* recv blocks until the peer has sent something, has closed its end or    *)
(* the connection is reset; accept blocks until a peer has connected.      *)
(***************************************************************************)
NetInit ==
    /\ backlog = <<>>
    /\ peerOf = <<>>
    /\ link = [p \in Peers |-> "none"]
    /\ toServer = [p \in Peers |-> <<>>]
    /\ toClient = [p \in Peers |-> 0]
    /\ clientPc = "connect"
    /\ clientPeer = "none"

\* p's end of its connection is open.
LinkOpen(p) == link[p] \in {"open", "sent"}

\* A client of the request protocol connects.
PeerConnect(p) ==
    /\ link[p] = "none"
    /\ link' = [link EXCEPT ![p] = "open"]
    /\ backlog' = Append(backlog, p)
    /\ UNCHANGED <<peerOf, toServer, toClient, clientPc, clientPeer,
                   serverVars, caVars, dhtVars>>

\* A connected client sends its request (accepted already or not).
PeerSend(p, request) ==
    /\ link[p] = "open"
    /\ link' = [link EXCEPT ![p] = "sent"]
    /\ toServer' = [toServer EXCEPT ![p] = Append(@, request)]
    /\ UNCHANGED <<backlog, peerOf, toClient, clientPc, clientPeer,
                   serverVars, caVars, dhtVars>>

\* A connected client closes its end.
PeerClose(p) ==
    /\ LinkOpen(p)
    /\ link' = [link EXCEPT ![p] = "closed"]
    /\ UNCHANGED <<backlog, peerOf, toServer, toClient, clientPc, clientPeer,
                   serverVars, caVars, dhtVars>>

\* The transport fails: p's connection is reset.
LinkResets(p) ==
    /\ LinkOpen(p)
    /\ link' = [link EXCEPT ![p] = "reset"]
    /\ UNCHANGED <<backlog, peerOf, toServer, toClient, clientPc, clientPeer,
                   serverVars, caVars, dhtVars>>

\* accept(): fails, or returns the socket of the first peer of the backlog.
NetAccept ==
    /\ \/ /\ AcceptStep(FALSE)
          /\ UNCHANGED <<backlog, peerOf>>
       \/ /\ backlog # <<>>
          /\ AcceptStep(TRUE)
          /\ peerOf' = Append(peerOf, Head(backlog))
          /\ backlog' = Tail(backlog)
    /\ UNCHANGED <<link, toServer, toClient, clientPc, clientPeer, caVars, dhtVars>>

\* recv(clientSocket): returns what the peer sent; 0 when the peer closed
\* its end, -1 when the connection was reset; blocks otherwise.
NetRecv ==
    /\ serverPc = "recv"
    /\ LET p == peerOf[clientSocket]
       IN  IF toServer[p] # <<>>
           THEN /\ RecvStep(1, Head(toServer[p]))
                /\ toServer' = [toServer EXCEPT ![p] = Tail(@)]
           ELSE /\ link[p] \in {"closed", "reset"}
                /\ RecvStep(IF link[p] = "closed" THEN 0 ELSE -1, GetLatest)
                /\ UNCHANGED toServer
    /\ UNCHANGED <<backlog, peerOf, link, toClient, clientPc, clientPeer, caVars, dhtVars>>

\* sendResponse(clientSocket, ...): the response reaches a peer whose end is
\* open; to a closed or reset connection send returns any of its results.
NetSend ==
    /\ serverPc = "send"
    /\ LET p == peerOf[clientSocket]
       IN  IF LinkOpen(p)
           THEN /\ SendStep(1)
                /\ toClient' = [toClient EXCEPT ![p] = @ + 1]
           ELSE /\ \E bytesWritten \in SendResults : SendStep(bytesWritten)
                /\ UNCHANGED toClient
    /\ UNCHANGED <<backlog, peerOf, link, toServer, clientPc, clientPeer, caVars, dhtVars>>

NetServerNext == NetAccept \/ NetRecv \/ NetSend

\* A mutant of AfterConnect: Client sends its request before it receives.
AfterConnectSend == "send"

\* Where Client::start goes once connect has returned a socket: to its first
\* recv.
AfterConnect == "recv"

\* The server has closed its socket of the connection with Client.
ServerClosedClient ==
    \E s \in DOMAIN peerOf : peerOf[s] = "client" /\ s \notin openSockets

\* What Client's recv can return now (nothing: it blocks).  Connected to the
\* program's Server it returns a response that was sent, 0 when the server
\* closed the socket, -1 when the connection was reset; connected to another
\* server, any of recv's results.
ClientRecvResults ==
    IF clientPeer = "other" THEN RecvResults
    ELSE IF toClient["client"] > 0 THEN {1}
    ELSE IF ServerClosedClient THEN {0}
    ELSE IF link["client"] = "reset" THEN {-1}
    ELSE {}

\* What Client's send can return now.
ClientSendResults ==
    IF clientPeer = "other" THEN SendResults
    ELSE IF LinkOpen("client") /\ ~ServerClosedClient THEN {1}
    ELSE {-1, 0}

\* close(clientSocket) in Client.
ClientClose ==
    link' = [link EXCEPT !["client"] = IF LinkOpen("client") THEN "closed" ELSE @]

\* connect("localhost", 8080): -1 ends start(); otherwise Client is connected
\* to whatever listens there, the program's Server or another server.
ClientConnect ==
    /\ clientPc = "connect"
    /\ \E target \in {"refused", "Server", "other"} :
         IF target = "refused"
         THEN /\ clientPc' = "done"
              /\ UNCHANGED <<clientPeer, link, backlog>>
         ELSE /\ clientPc' = AfterConnect
              /\ clientPeer' = target
              /\ IF target = "Server"
                 THEN /\ link' = [link EXCEPT !["client"] = "open"]
                      /\ backlog' = Append(backlog, "client")
                 ELSE UNCHANGED <<link, backlog>>
    /\ UNCHANGED <<peerOf, toServer, toClient, serverVars, caVars, dhtVars>>

\* The first recv: <= 0 closes the socket and ends start(); otherwise the
\* loop is entered.
ClientRecv ==
    /\ clientPc = "recv"
    /\ \E n \in ClientRecvResults :
         /\ toClient' = [toClient EXCEPT
                           !["client"] = IF clientPeer = "Server" /\ n > 0 THEN @ - 1 ELSE @]
         /\ IF n <= 0
            THEN ClientClose /\ clientPc' = "done"
            ELSE clientPc' = "send" /\ UNCHANGED link
    /\ UNCHANGED <<backlog, peerOf, toServer, clientPeer, serverVars, caVars, dhtVars>>

\* send(clientSocket, "Get latest transactions", 24): <= 0 closes the socket
\* and ends start(); otherwise the answer is awaited.
ClientSend ==
    /\ clientPc = "send"
    /\ \E bytesWritten \in ClientSendResults :
         /\ toServer' = [toServer EXCEPT
                           !["client"] = IF clientPeer = "Server" /\ bytesWritten > 0
                                         THEN Append(@, GetLatest) ELSE @]
         /\ IF bytesWritten <= 0
            THEN ClientClose /\ clientPc' = "done"
            ELSE clientPc' = "recv2" /\ UNCHANGED link
    /\ UNCHANGED <<backlog, peerOf, toClient, clientPeer, serverVars, caVars, dhtVars>>

\* The loop's recv: -1 or 0 leaves the loop (the socket stays open);
\* otherwise the transactions are printed and the loop sends again.
ClientRecv2 ==
    /\ clientPc = "recv2"
    /\ \E n \in ClientRecvResults :
         /\ toClient' = [toClient EXCEPT
                           !["client"] = IF clientPeer = "Server" /\ n > 0 THEN @ - 1 ELSE @]
         /\ clientPc' = IF n = -1 \/ n = 0 THEN "done" ELSE "send"
    /\ UNCHANGED <<backlog, peerOf, link, toServer, clientPeer, serverVars, caVars, dhtVars>>

ClientNext == ClientConnect \/ ClientRecv \/ ClientSend \/ ClientRecv2

PeerNext ==
    \/ \E p \in EnvPeers :
         \/ PeerConnect(p)
         \/ \E request \in Requests : PeerSend(p, request)
         \/ PeerClose(p)
    \/ \E p \in Peers : LinkResets(p)

NetNext == NetServerNext \/ PeerNext \/ ClientNext

(***************************************************************************)
(* Specifications                                                          *)
(***************************************************************************)
Init == ServerInit /\ CaInit /\ DhtInit /\ NetInit

\* The three programs side by side.
Next == ServerNext \/ CaNext \/ DhtNext

Spec == Init /\ [][Next]_vars

\* The coordinators alone, the replies of the members arriving on the transport.
CaSpec == Init /\ [][CaNext]_vars

\* The coordinators alone, recvClientData as written.
StubSpec == Init /\ [][CaStubNext]_vars

\* The server alone.
ServerSpec == Init /\ [][ServerNext]_vars

\* The server beside a coordinator.
JointNext == ServerNext \/ CaStart("A") \/ Propose("A") \/ waitForVotes("A")

JointSpec == Init /\ [][JointNext]_vars

\* The message store alone.
DhtSpec == Init /\ [][DhtNext]_vars

\* The server, two clients of its request protocol and Client, over connections.
NetSpec == Init /\ [][NetNext]_vars

(***************************************************************************)
(* Properties                                                              *)
(***************************************************************************)
\* s is a prefix of t.
IsPrefix(s, t) == Len(s) <= Len(t) /\ SubSeq(t, 1, Len(s)) = s

C4_CommitBeforeAppend ==
    \A i \in 1..Len(transactions) :
      \E c \in Coordinators : Len(accepted[c]) >= i

\* C6. Append-only log: every step leaves the earlier log a prefix of the
\* later one, and a step that changes the log adds exactly one entry.
C6_AppendOnly ==
    [][/\ IsPrefix(transactions, transactions')
       /\ Len(transactions') <= Len(transactions) + 1]_vars

\* C6 witness: two entries were recorded, then a recv failed and an accept
\* failed, and a response could not be sent on one of the connections.
C6_Witness ==
    /\ Len(transactions) = 2
    /\ connections = 3
    /\ bytesRead = -1
    /\ clientSocket = -1
    /\ Cardinality(responded) = 1

\* C7. Progress: once RetryBound rounds of a coordinator have ended, one of
\* its proposals has been accepted.
C7_Progress ==
    \A c \in Coordinators :
      (caPc[c] = "propose" /\ maxIssued[c] + 1 >= RetryBound)
        => accepted[c] # <<>>

C10_TransportFailure ==
    [][/\ (\/ (serverPc = "accept" /\ clientSocket' = -1)
            \/ (serverPc = "recv" /\ bytesRead' <= 0))
           => (/\ transactions' = transactions
               /\ responded' = responded
               /\ clientSocket' \notin responded'
               /\ serverPc' = "accept")
       /\ (serverPc' = "send") => (bytesRead' > 0)
       /\ (serverPc = "send" /\ serverPc' # "send")
           => (serverPc' = "accept" /\ transactions' = transactions)]_vars

\* C10 witness: with one entry recorded, recv returned 0 on the second
\* connection and the following accept failed; the server is back at accept.
C10_Witness ==
    /\ Len(transactions) = 1
    /\ connections = 2
    /\ bytesRead = 0
    /\ clientSocket = -1
    /\ serverPc = "accept"

\* C12. A rejected proposal is retried with the next number: a round of
\* waitForVotes that ends without a majority takes start() back to the top of
\* its loop, the proposal that follows a rejected proposal n has number
\* n + 1, and the first proposal has number 0.
C12_RejectedRetry ==
    [][\A c \in Coordinators :
         /\ (caPc[c] = "wait" /\ caPc'[c] # "wait" /\ outcome'[c] = "rejected")
              => (caPc'[c] = "propose" /\ currentProposal'[c] = proposalNumber[c] + 1)
         /\ (caPc[c] = "propose" /\ caPc'[c] = "wait" /\ outcome[c] = "rejected")
              => (proposalNumber'[c] = proposalNumber[c] + 1)
         /\ (caPc[c] = "propose" /\ caPc'[c] = "wait" /\ outcome[c] = "none")
              => (proposalNumber'[c] = 0)]_vars

\* C12 witness: proposal 1 was rejected and proposal 2 has been sent.
C12_Witness ==
    \E c \in Coordinators :
      /\ caPc[c] = "wait"
      /\ outcome[c] = "rejected"
      /\ proposalNumber[c] = 2
      /\ accepted[c] = <<>>

C13_StillRetrievable ==
    reachable = Nodes
      => \A k \in Keys :
           \A d \in everStored[k] :
             d \in get(held, reachable, getMessageArgs(k[1], k[2])[1],
                       getMessageArgs(k[1], k[2])[2])

\* The sockets accept has returned.
AcceptedSockets == 1..connections

\* C14. Server request accounting: recv is called on a socket at most once;
\* the log has as many entries as there are accepted sockets whose recv
\* returned more than 0 bytes; a socket's entry is in the log when its
\* response is sent, and a send, failed or not, leaves the log as it is.
C14_RequestAccounting ==
    [][/\ Len(transactions) = Cardinality(received)
       /\ Len(transactions') = Cardinality(received')
       /\ received \subseteq AcceptedSockets
       /\ responded \cup sendFailedOn \subseteq received
       /\ (serverPc = "recv" /\ serverPc' # "recv")
            => (clientSocket \notin received \cup recvFailedOn)
       /\ (serverPc = "send" /\ serverPc' # "send")
            => (/\ clientSocket \in received
                /\ Len(transactions) >= 1
                /\ transactions' = transactions)]_vars

\* C14 witness: three requests were received and recorded; the response to
\* the first was sent, the send of the second failed, and the response to the
\* third is about to be sent.
C14_Witness ==
    /\ Len(transactions) = 3
    /\ received = {1, 2, 3}
    /\ responded = {1}
    /\ sendFailedOn = {2}
    /\ serverPc = "send"

\* C16. Socket release: an accepted socket is closed by the server exactly
\* when recv on it returned <= 0 or the send of its response returned <= 0;
\* a socket whose request was received and answered stays open, and a step
\* that receives a request or sends a response closes nothing.
C16_SocketRelease ==
    [][/\ \A s \in AcceptedSockets' :
            (s \notin openSockets') <=> (s \in recvFailedOn' \cup sendFailedOn')
       /\ responded' \subseteq openSockets'
       /\ (bytesRead' > 0 /\ serverPc = "recv" /\ serverPc' = "send")
            => (openSockets' = openSockets)
       /\ (responded' # responded) => (openSockets' = openSockets)]_vars

\* C16 witness: the first connection was answered and is still open, recv
\* failed on the second and the send failed on the third; both are closed.
C16_Witness ==
    /\ connections = 3
    /\ responded = {1}
    /\ recvFailedOn = {2}
    /\ sendFailedOn = {3}
    /\ openSockets = {1}
    /\ serverPc = "accept"

\* C11. Non-blocking dispatch: whenever a connected client has a request
\* waiting for the server, the server can take a step, whatever the other
\* connected clients have or have not sent.
C11_NonBlocking ==
    \A p \in Peers :
      (link[p] = "sent" /\ toServer[p] # <<>>) => ENABLED NetServerNext

====
